---- MODULE Spec2Model ----
(***************************************************************************)
(* The command parser of the task manager (src/parse.c): parse() splits a  *)
(* command line on spaces into argv[], copies the first token into         *)
(* inst->instruct, extracts the numeric id from argv[1] and the file name  *)
(* from argv[2], and releases argv[] when the instruction is a built-in.   *)
(*                                                                         *)
(* Strings are sequences of characters; a character is a one-symbol        *)
(* string.  Pointers are heap addresses, NULL, or UNINIT (the              *)
(* indeterminate value of storage that was never written).                 *)
(***************************************************************************)
EXTENDS Integers, Sequences, FiniteSets, TLC

(***************************************************************************)
(* Characters.                                                             *)
(***************************************************************************)
NUL == "NUL"
SP  == " "
TAB == "TAB"
NL  == "NL"
VT  == "VT"
FF  == "FF"
CR  == "CR"

\* <ctype.h> isspace in the "C" locale, as used at parse.c:141 and by strtol
isspace(c) == c \in {SP, TAB, NL, VT, FF, CR}

Digit == {"0", "1", "2", "3", "4", "5", "6", "7", "8", "9"}

DigitVal(c) ==
    CASE c = "0" -> 0 [] c = "1" -> 1 [] c = "2" -> 2 [] c = "3" -> 3
      [] c = "4" -> 4 [] c = "5" -> 5 [] c = "6" -> 6 [] c = "7" -> 7
      [] c = "8" -> 8 [] c = "9" -> 9

Min(a, b) == IF a < b THEN a ELSE b
Max(a, b) == IF a > b THEN a ELSE b

(***************************************************************************)
(* Configuration (taskman.h / parse.h are not part of the sources at hand; *)
(* the values are scaled so that the model stays finite).                  *)
(***************************************************************************)
MAXARGS == 4
MAXLINE == 14

(***************************************************************************)
(* Reference data: parse.c:25-31.                                          *)
(***************************************************************************)
S_help    == <<"h", "e", "l", "p">>
S_quit    == <<"q", "u", "i", "t">>
S_tasks   == <<"t", "a", "s", "k", "s">>
S_delete  == <<"d", "e", "l", "e", "t", "e">>
S_run     == <<"r", "u", "n">>
S_bg      == <<"b", "g">>
S_cancel  == <<"c", "a", "n", "c", "e", "l">>
S_log     == <<"l", "o", "g">>
S_output  == <<"o", "u", "t", "p", "u", "t">>
S_suspend == <<"s", "u", "s", "p", "e", "n", "d">>
S_resume  == <<"r", "e", "s", "u", "m", "e">>

instructs_list_full ==
    << S_help, S_quit, S_tasks, S_delete, S_run, S_bg, S_cancel, S_log,
       S_output, S_suspend, S_resume >>

instructs_with_id ==
    << S_delete, S_run, S_bg, S_cancel, S_log, S_output, S_suspend, S_resume >>

instructs_with_file == << S_run, S_bg, S_log >>

(***************************************************************************)
(* C string primitives.                                                    *)
(***************************************************************************)
\* the bytes of string s as they lie in memory
CStr(s) == s \o <<NUL>>

\* strncmp(a, b, n) == 0 on the byte images a and b
RECURSIVE strncmp_eq(_, _, _)
strncmp_eq(a, b, n) ==
    IF n = 0 THEN TRUE
    ELSE IF Head(a) # Head(b) THEN FALSE
    ELSE IF Head(a) = NUL THEN TRUE
    ELSE strncmp_eq(Tail(a), Tail(b), n - 1)

\* parse.c:125-132 (needle and haystack non-NULL)
contains(needle, haystack) ==
    \E i \in 1..Len(haystack) :
        strncmp_eq(CStr(needle), CStr(haystack[i]), Len(haystack[i]) + 1)

(***************************************************************************)
(* strtok(3) with the delimiter set " ".  mem is the memory starting at    *)
(* the scratch buffer (1-based), p the position scanning resumes from.     *)
(* The result tells whether a token was found, the token, the position     *)
(* saved for the next call, the memory (the delimiter that ended the       *)
(* token is overwritten with NUL) and the last position that was read.     *)
(***************************************************************************)
RECURSIVE SkipDelims(_, _)
SkipDelims(mem, p) == IF mem[p] = SP THEN SkipDelims(mem, p + 1) ELSE p

RECURSIVE ScanToken(_, _)
ScanToken(mem, p) == IF mem[p] \in {SP, NUL} THEN p ELSE ScanToken(mem, p + 1)

strtok(mem, p) ==
    LET s == SkipDelims(mem, p) IN
    IF mem[s] = NUL
    THEN [found |-> FALSE, tok |-> <<>>, save |-> s, mem |-> mem, last |-> s]
    ELSE LET e == ScanToken(mem, s) IN
         IF mem[e] = NUL
         THEN [found |-> TRUE, tok |-> SubSeq(mem, s, e - 1), save |-> e,
               mem |-> mem, last |-> e]
         ELSE [found |-> TRUE, tok |-> SubSeq(mem, s, e - 1), save |-> e + 1,
               mem |-> [mem EXCEPT ![e] = NUL], last |-> e]

(***************************************************************************)
(* parse.c:53-54: char buffer[MAXLINE] = {0}; strncpy(buffer, line,        *)
(* MAXLINE).  strncpy copies at most MAXLINE bytes and pads with NUL; it   *)
(* writes no terminator when the line has MAXLINE characters or more.      *)
(***************************************************************************)
scratch(line) ==
    [i \in 1..MAXLINE |-> IF i <= Len(line) THEN line[i] ELSE NUL]

\* the scratch buffer followed by the bytes g that lie behind it on the stack
Memory(line, g) == scratch(line) \o g \o <<NUL>>

(***************************************************************************)
(* parse.c:57-67: the tokenizing loop.  r is the pending strtok result,    *)
(* acc the tokens stored so far (acc[k] is argv[k-1]), last the highest    *)
(* position read so far.                                                   *)
(***************************************************************************)
RECURSIVE TokLoop(_, _, _, _)
TokLoop(r, acc, n, last) ==
    IF ~r.found THEN [toks |-> acc, last |-> Max(last, r.last)]
    ELSE LET acc2 == Append(acc, r.tok)
             nx   == strtok(r.mem, r.save)
         IN  IF Len(acc2) >= n
             THEN [toks |-> acc2, last |-> Max(Max(last, r.last), nx.last)]
             ELSE TokLoop(nx, acc2, n, Max(last, r.last))

\* a loop that stops one token late
Tokenize_late(mem, n) == TokLoop(strtok(mem, 1), <<>>, n + 1, 0)

Tokenize(mem, n) == TokLoop(strtok(mem, 1), <<>>, n, 0)

(***************************************************************************)
(* strtol(p_tok, &end, 10) followed by the (int) cast of line 97.  The     *)
(* value is accumulated in two 16-bit limbs, i.e. modulo 2^32, which is    *)
(* what the cast from a 64-bit long keeps; a token of fewer than 19 digits *)
(* cannot saturate the long.  end is the 1-based position after the last   *)
(* digit, or 1 (p_tok itself) when no digits were converted.               *)
(***************************************************************************)
Limb == 65536

RECURSIVE SkipSpace(_, _)
SkipSpace(s, i) == IF isspace(s[i]) THEN SkipSpace(s, i + 1) ELSE i

RECURSIVE AccDigits(_, _, _, _)
AccDigits(s, i, hi, lo) ==
    IF s[i] \notin Digit THEN [hi |-> hi, lo |-> lo, end |-> i]
    ELSE LET l == lo * 10 + DigitVal(s[i])
         IN  AccDigits(s, i + 1, (hi * 10 + l \div Limb) % Limb, l % Limb)

\* two's complement negation modulo 2^32
NegLimbs(hi, lo) ==
    [hi |-> (Limb - hi - (IF lo = 0 THEN 0 ELSE 1)) % Limb,
     lo |-> (Limb - lo) % Limb]

\* the int with the bit pattern hi:lo
ToInt(hi, lo) ==
    IF hi >= Limb \div 2 THEN (hi - Limb) * Limb + lo ELSE hi * Limb + lo

strtol_int(tok) ==
    LET s    == CStr(tok)
        b    == SkipSpace(s, 1)
        neg  == s[b] = "-"
        d    == IF s[b] \in {"+", "-"} THEN b + 1 ELSE b
        acc  == AccDigits(s, d, 0, 0)
        none == acc.end = d
        v    == IF neg THEN NegLimbs(acc.hi, acc.lo) ELSE [hi |-> acc.hi, lo |-> acc.lo]
    IN  [val |-> IF none THEN 0 ELSE ToInt(v.hi, v.lo),
         end |-> IF none THEN 1 ELSE acc.end]

(***************************************************************************)
(* The heap.  A heap is a function from the live addresses to the strings  *)
(* stored there; malloc hands out the lowest free address.                 *)
(***************************************************************************)
HeapSize == 10
Addr     == 1..HeapSize
NULL     == 0
UNINIT   == NULL - 1
FreeCell == <<"free">>

Live(h) == {a \in Addr : h[a] # FreeCell}

malloc(h) ==
    CHOOSE a \in Addr \ Live(h) : \A b \in Addr \ Live(h) : a <= b

\* util.c string_copy: a freshly allocated copy of s
string_copy(h, s) ==
    LET a == malloc(h) IN [heap |-> [h EXCEPT ![a] = s], ptr |-> a]

\* free(p): NULL is a no-op; anything that is not a live block is a fault
free(h, p) ==
    IF p = NULL THEN [heap |-> h, faults |-> {}]
    ELSE IF p \in Live(h)
    THEN [heap |-> [h EXCEPT ![p] = FreeCell], faults |-> {}]
    ELSE [heap |-> h,
          faults |-> {IF p = UNINIT THEN "invalid_free" ELSE "double_free"}]

ArgvIdx == 0..(MAXARGS - 1)

\* util.c free_argv_str: free every token and reset its slot
RECURSIVE free_slots(_, _, _, _)
free_slots(h, av, i, fl) ==
    IF i >= MAXARGS THEN [heap |-> h, argv |-> av, faults |-> fl]
    ELSE LET f == free(h, av[i])
         IN  free_slots(f.heap, [av EXCEPT ![i] = NULL], i + 1, fl \cup f.faults)

free_argv_str(h, av) == free_slots(h, av, 0, {})

\* parse.c:163-170
initialize_argv_n(av, n) == [i \in ArgvIdx |-> IF i < n THEN NULL ELSE av[i]]

\* parse.c:149-157
initialize_instruction == [instruct |-> NULL, id |-> 0, file |-> NULL]

\* parse.c:179-188
free_instruction(h, in) ==
    LET f1 == free(h, in.instruct)
        f2 == free(f1.heap, in.file)
    IN  [heap |-> f2.heap,
         inst |-> [in EXCEPT !.instruct = NULL, !.file = NULL],
         faults |-> f1.faults \cup f2.faults]

(***************************************************************************)
(* The field extractors.  Each returns what it leaves in its out argument. *)
(***************************************************************************)
\* parse.c:91-106
parse_id_token(h, p_tok, instruct, id) ==
    IF p_tok = NULL \/ instruct = NULL THEN id
    ELSE IF ~contains(h[instruct], instructs_with_id) THEN id
    ELSE LET r == strtol_int(h[p_tok])
         IN  IF CStr(h[p_tok])[r.end] # NUL \/ r.end = 1 THEN 0 ELSE r.val

\* an extractor that stores the token itself instead of a copy
parse_file_token_alias(h, p_tok, instruct, file) ==
    IF p_tok = NULL \/ instruct = NULL THEN [heap |-> h, file |-> file]
    ELSE IF ~contains(h[instruct], instructs_with_file) THEN [heap |-> h, file |-> file]
    ELSE [heap |-> h, file |-> p_tok]

\* parse.c:114-122
parse_file_token(h, p_tok, instruct, file) ==
    IF p_tok = NULL \/ instruct = NULL THEN [heap |-> h, file |-> file]
    ELSE IF ~contains(h[instruct], instructs_with_file) THEN [heap |-> h, file |-> file]
    ELSE LET c == string_copy(h, h[p_tok]) IN [heap |-> c.heap, file |-> c.ptr]

\* parse.c:63: argv[index] = string_copy(p_tok), for each token in turn
RECURSIVE StoreTokens(_, _, _, _)
StoreTokens(h, av, toks, index) ==
    IF index >= Len(toks) THEN [heap |-> h, argv |-> av]
    ELSE LET c == string_copy(h, toks[index + 1])
         IN  StoreTokens(c.heap, [av EXCEPT ![index] = c.ptr], toks, index + 1)

(***************************************************************************)
(* parse.c:58 and 70-81: what parse_n makes of the tokens the loop found,  *)
(* given the heap h and the token buffer av.  slots are the argv indices   *)
(* read or written from line 60 on.                                        *)
(***************************************************************************)
parse_fields(toks, h, av) ==
    IF toks = <<>>
    THEN [inst |-> initialize_instruction, argv |-> av, heap |-> h,
          toks |-> <<>>, faults |-> {}, slots |-> {}]
    ELSE LET st == StoreTokens(h, av, toks, 0)
             nm == string_copy(st.heap, st.heap[st.argv[0]])
             id == parse_id_token(nm.heap, st.argv[1], nm.ptr, 0)
             fl == parse_file_token(nm.heap, st.argv[2], nm.ptr, NULL)
             rel == IF contains(fl.heap[nm.ptr], instructs_list_full)
                    THEN free_argv_str(fl.heap, st.argv)
                    ELSE [heap |-> fl.heap, argv |-> st.argv, faults |-> {}]
         IN  [inst |-> [instruct |-> nm.ptr, id |-> id, file |-> fl.file],
              argv |-> rel.argv, heap |-> rel.heap, toks |-> toks,
              faults |-> rel.faults,
              slots |-> (0..(Len(toks) - 1)) \cup {0, 1, 2}]

(***************************************************************************)
(* parse.c:42-82 past the argument check, run without interruption: the    *)
(* outcome of parse_n for a line and the bytes g behind the scratch        *)
(* buffer.  Reading past the buffer is recorded as the fault oob_read.     *)
(***************************************************************************)
parse_n(line, g, h, av, n) ==
    LET t == Tokenize(Memory(line, g), n)
        r == parse_fields(t.toks, h, av)
    IN  [r EXCEPT !.faults = r.faults \cup
                      (IF t.last > MAXLINE THEN {"oob_read"} ELSE {})]

(***************************************************************************)
(* Input lines: a first word and up to MaxWords further words, joined by   *)
(* single spaces (an empty word yields adjacent, leading or trailing       *)
(* spaces), optionally moved right by leading spaces.                      *)
(***************************************************************************)
MaxWords   == 3
MaxGarbage == 2

W_empty == <<>>
W_ls    == <<"l", "s">>
W_Bg    == <<"B", "g">>
W_b     == <<"b">>
W_bgx   == <<"b", "g", "x">>
W_tab   == <<TAB>>
W_42    == <<"4", "2">>
W_4x    == <<"4", "x">>
W_m3    == <<"-", "3">>
W_p7    == <<"+", "7">>
W_t42   == <<TAB, "4", "2">>
W_big   == <<"4", "2", "9", "4", "9", "6", "7", "3", "3", "8">>
W_f     == <<"f">>

NameWords == {W_empty, S_bg, S_help, S_cancel, W_ls, W_Bg, W_b, W_bgx, W_tab}
ArgWords  == {W_empty, W_42, W_4x, W_m3, W_p7, W_t42, W_big, W_f}

Spaces(k) == [i \in 1..k |-> SP]

RECURSIVE Join(_)
Join(ws) ==
    IF Len(ws) = 0 THEN <<>>
    ELSE IF Len(ws) = 1 THEN ws[1]
    ELSE ws[1] \o <<SP>> \o Join(Tail(ws))

ArgSeqs(k) == UNION {[1..j -> ArgWords] : j \in 0..k}

BaseLines == {Join(<<w>> \o as) : w \in NameWords, as \in ArgSeqs(MaxWords)}

\* line l moved right by leading spaces until it is k characters long
PadTo(l, k) == IF Len(l) >= k THEN l ELSE Spaces(k - Len(l)) \o l

\* each line as it is, and ending exactly at and one past the buffer's end
Lines ==
    BaseLines \cup {PadTo(l, MAXLINE) : l \in BaseLines}
              \cup {PadTo(l, MAXLINE + 1) : l \in BaseLines}

\* what may lie behind the scratch buffer: up to MaxGarbage non-NUL bytes
Garbage == UNION {[1..j -> {"g", SP}] : j \in 0..MaxGarbage}

(***************************************************************************)
(* State.                                                                  *)
(***************************************************************************)
VARIABLES
    cmd_line,   \* the line the caller holds
    inst,       \* the Instruction: instruct, id, file
    argv,       \* the token buffer, argv[0..MAXARGS-1]
    heap,       \* the strings allocated by string_copy
    faults,     \* memory faults so far: oob_read, double_free, invalid_free
    call,       \* the last call: operation, which arguments were non-NULL,
                \* and for parse the tokens found, the argv slots touched
                \* and the addresses allocated
    life,       \* the call sequence so far: whether a parse awaits its
                \* free_command, and whether the calling discipline was kept
    conc        \* concurrent parse calls: strtok's static position and
                \* each thread's locals

vars == <<cmd_line, inst, argv, heap, faults, call, life, conc>>

Threads == {1, 2}

\* no concurrent call is under way
ConcIdle ==
    [save |-> [owner |-> 0, pos |-> 0], overlapped |-> FALSE,
     th |-> [t \in Threads |->
                [pc |-> "off", line |-> <<>>, mem |-> <<>>, toks |-> <<>>,
                 p_tok |-> [found |-> FALSE, tok |-> <<>>], view |-> <<>>]]]

NoCall ==
    [op |-> "none", line |-> FALSE, inst |-> FALSE, argv |-> FALSE,
     toks |-> <<>>, slots |-> {}, fresh |-> {}]

\* Instruction inst; char *argv[MAXARGS]; declared, not yet written
InitState ==
    /\ inst = [instruct |-> UNINIT, id |-> UNINIT, file |-> UNINIT]
    /\ argv = [i \in ArgvIdx |-> UNINIT]
    /\ heap = [a \in Addr |-> FreeCell]
    /\ faults = {}
    /\ call = NoCall
    /\ life = [begun |-> FALSE, pending |-> FALSE, paired |-> TRUE, strict |-> TRUE]

Init == cmd_line \in Lines /\ InitState /\ conc = ConcIdle

\* parse.c:172-176, both destinations given
InitializeCommand ==
    /\ inst' = initialize_instruction
    /\ argv' = initialize_argv_n(argv, MAXARGS)
    /\ call' = [NoCall EXCEPT !.op = "initialize_command", !.inst = TRUE, !.argv = TRUE]
    /\ life' = [life EXCEPT !.begun = TRUE,
                            !.strict = life.strict /\ ~life.pending]
    /\ UNCHANGED <<cmd_line, heap, faults, conc>>

\* parse.c:37-40 and 42-82.  cl, ip, av: whether cmd_line, inst, argv are
\* non-NULL; g: the bytes behind the scratch buffer.
Parse(cl, ip, av, g) ==
    LET av1 == IF av THEN initialize_argv_n(argv, MAXARGS) ELSE argv
        lf  == [life EXCEPT !.pending = TRUE,
                            !.paired = life.paired /\ ~life.pending,
                            !.strict = life.strict /\ ~life.pending /\ life.begun]
    IN
    /\ Cardinality(Addr \ Live(heap)) >= MAXARGS + 1
    /\ life' = lf
    /\ UNCHANGED <<cmd_line, conc>>
    /\ IF ~cl \/ ~ip \/ ~av
       THEN /\ argv' = av1
            /\ call' = [NoCall EXCEPT !.op = "parse", !.line = cl, !.inst = ip,
                                      !.argv = av,
                                      !.slots = IF av THEN ArgvIdx ELSE {}]
            /\ UNCHANGED <<inst, heap, faults>>
       ELSE \E r \in {parse_n(cmd_line, g, heap, av1, MAXARGS - 1)} :
            /\ inst' = r.inst
            /\ argv' = r.argv
            /\ heap' = r.heap
            /\ faults' = faults \cup r.faults
            /\ call' = [op |-> "parse", line |-> TRUE, inst |-> TRUE, argv |-> TRUE,
                        toks |-> r.toks, slots |-> ArgvIdx \cup r.slots,
                        fresh |-> Live(r.heap) \ Live(heap)]

\* parse.c:190-193, both destinations given
FreeCommand ==
    \E fi \in {free_instruction(heap, inst)} :
    \E fa \in {free_argv_str(fi.heap, argv)} :
        /\ inst' = fi.inst
        /\ argv' = fa.argv
        /\ heap' = fa.heap
        /\ faults' = faults \cup fi.faults \cup fa.faults
        /\ call' = [NoCall EXCEPT !.op = "free_command", !.inst = TRUE, !.argv = TRUE]
        /\ life' = [life EXCEPT !.pending = FALSE,
                                !.strict = life.strict /\ life.begun]
        /\ UNCHANGED <<cmd_line, conc>>

\* the lines of the call-sequence specification
LifeLines ==
    {<<>>, Join(<<W_ls, W_m3>>), Join(<<S_bg, W_42, W_f>>), Join(<<S_help, W_f>>),
     Join(<<W_ls, W_f, W_f, W_f>>), PadTo(W_ls, MAXLINE)}

InitLife == cmd_line \in LifeLines /\ InitState /\ conc = ConcIdle

\* any call at any time, with or without its arguments
Next ==
    \/ InitializeCommand
    \/ \E cl, ip, av \in BOOLEAN :
           \E g \in (IF Len(cmd_line) >= MAXLINE THEN Garbage ELSE {<<>>}) :
               Parse(cl, ip, av, g)
    \/ FreeCommand

\* the documented life cycle: initialize, parse, release
Lifecycle ==
    \/ ~life.pending /\ InitializeCommand
    \/ /\ life.begun /\ ~life.pending
       /\ \E g \in (IF Len(cmd_line) >= MAXLINE THEN Garbage ELSE {<<>>}) :
              Parse(TRUE, TRUE, TRUE, g)
    \/ life.pending /\ FreeCommand

Spec == Init /\ [][Lifecycle]_vars

SpecLife == InitLife /\ [][Next]_vars

(***************************************************************************)
(* Two parse calls on separate lines, instructions and token buffers, run  *)
(* by two threads.  A step is one statement of parse_n; strtok keeps the   *)
(* position to resume from in a static variable, conc.save, which names    *)
(* the buffer (by its thread) and the position in it.                      *)
(***************************************************************************)
ConcLines ==
    {<<>>, Join(<<W_ls, W_m3>>), Join(<<S_bg, W_42, W_f>>), Join(<<S_help, W_f>>),
     Join(<<W_ls, W_f, W_f, W_f>>)}

ConcStart(l1, l2) ==
    [ConcIdle EXCEPT !.th[1].pc = "copy", !.th[1].line = l1,
                     !.th[2].pc = "copy", !.th[2].line = l2]

InitConc ==
    /\ cmd_line = <<>>
    /\ InitState
    /\ conc \in {ConcStart(l1, l2) : l1, l2 \in ConcLines}

\* what a caller sees of an instruction and a token buffer
OptStr(h, p) == IF p = NULL THEN <<>> ELSE <<h[p]>>

View(in, av, h) ==
    [name |-> OptStr(h, in.instruct), id |-> in.id, file |-> OptStr(h, in.file),
     args |-> [i \in ArgvIdx |-> OptStr(h, av[i])]]

\* what the stack area of a returned call may hold afterwards
DeadImages(mem) ==
    {mem, [i \in DOMAIN mem |-> NUL],
     [i \in DOMAIN mem |-> IF i = Len(mem) THEN NUL ELSE "g"]}

\* parse.c:38 and 47-54: reset the destinations, copy the line
T_Copy(t) ==
    /\ conc.th[t].pc = "copy"
    /\ conc' = [conc EXCEPT !.th[t].pc = "first",
                            !.th[t].mem = Memory(conc.th[t].line, <<>>)]
    /\ UNCHANGED <<cmd_line, inst, argv, heap, faults, call, life>>

\* parse.c:57-58: p_tok = strtok(buffer, " ")
T_First(t) ==
    /\ conc.th[t].pc = "first"
    /\ \E r \in {strtok(conc.th[t].mem, 1)} :
           conc' = [conc EXCEPT
                      !.save = [owner |-> t, pos |-> r.save],
                      !.overlapped = conc.overlapped \/
                          \E u \in Threads \ {t} : conc.th[u].pc \in {"store", "next"},
                      !.th[t].mem = r.mem,
                      !.th[t].p_tok = [found |-> r.found, tok |-> r.tok],
                      !.th[t].pc = IF r.found THEN "store" ELSE "fields"]
    /\ UNCHANGED <<cmd_line, inst, argv, heap, faults, call, life>>

\* parse.c:63-64: argv[index] = string_copy(p_tok); index++
T_Store(t) ==
    /\ conc.th[t].pc = "store"
    /\ conc' = [conc EXCEPT !.th[t].toks = Append(@, conc.th[t].p_tok.tok),
                            !.th[t].pc = "next"]
    /\ UNCHANGED <<cmd_line, inst, argv, heap, faults, call, life>>

\* parse.c:65-66: p_tok = strtok(NULL, " "); if (index >= n) p_tok = NULL
T_Next(t) ==
    /\ conc.th[t].pc = "next"
    /\ \E r \in {strtok(conc.th[conc.save.owner].mem, conc.save.pos)} :
       \E more \in {r.found /\ Len(conc.th[t].toks) < MAXARGS - 1} :
           conc' = [conc EXCEPT
                      !.save.pos = r.save,
                      !.th[conc.save.owner].mem = r.mem,
                      !.th[t].p_tok = [found |-> more, tok |-> r.tok],
                      !.th[t].pc = IF more THEN "store" ELSE "fields"]
    /\ UNCHANGED <<cmd_line, inst, argv, heap, faults, call, life>>

\* parse.c:58 or 70-82, and the return
T_Fields(t) ==
    /\ conc.th[t].pc = "fields"
    /\ \E r \in {parse_fields(conc.th[t].toks, [a \in Addr |-> FreeCell],
                              [i \in ArgvIdx |-> NULL])} :
       \E dead \in DeadImages(conc.th[t].mem) :
           conc' = [conc EXCEPT !.th[t].view = View(r.inst, r.argv, r.heap),
                                !.th[t].mem = dead,
                                !.th[t].pc = "done"]
    /\ UNCHANGED <<cmd_line, inst, argv, heap, faults, call, life>>

NextConc ==
    \E t \in Threads :
        T_Copy(t) \/ T_First(t) \/ T_Store(t) \/ T_Next(t) \/ T_Fields(t)

SpecConc == InitConc /\ [][NextConc]_vars

(***************************************************************************)
(* Vocabulary of the properties.  These definitions say what a line means  *)
(* independently of the parser: its tokens are its maximal runs of         *)
(* characters other than the space.                                        *)
(***************************************************************************)
RECURSIVE SplitOnSpaces(_, _, _)
SplitOnSpaces(line, cur, acc) ==
    IF line = <<>> THEN (IF cur = <<>> THEN acc ELSE Append(acc, cur))
    ELSE IF Head(line) = SP
    THEN SplitOnSpaces(Tail(line), <<>>, IF cur = <<>> THEN acc ELSE Append(acc, cur))
    ELSE SplitOnSpaces(Tail(line), Append(cur, Head(line)), acc)

LineTokens == SplitOnSpaces(cmd_line, <<>>, <<>>)

FullNames == {instructs_list_full[i] : i \in DOMAIN instructs_list_full}
IdNames   == {instructs_with_id[i] : i \in DOMAIN instructs_with_id}
FileNames == {instructs_with_file[i] : i \in DOMAIN instructs_with_file}

\* the last call was parse with a line and both destinations
ParseDone == call.op = "parse" /\ call.line /\ call.inst /\ call.argv

\* the number of tokens in argv before its first absent slot, and these tokens
ArgvCount  == Cardinality({i \in ArgvIdx : \A j \in 0..i : argv[j] # NULL})
ArgvTokens == [i \in 1..ArgvCount |-> heap[argv[i - 1]]]
ArgvEmpty  == \A i \in ArgvIdx : argv[i] = NULL

\* the tokens a buffer of MAXARGS slots can keep
Kept(T) == SubSeq(T, 1, Min(Len(T), MAXARGS - 1))

FitsBuffer    == Len(cmd_line) < MAXLINE
WithinMaximum == Len(cmd_line) <= MAXLINE

\* an optional sign followed by one or more digits and nothing else
Unsigned(tok) == IF tok # <<>> /\ tok[1] \in {"+", "-"} THEN Tail(tok) ELSE tok
IsIntLiteral(tok) ==
    Unsigned(tok) # <<>> /\ \A i \in DOMAIN Unsigned(tok) : Unsigned(tok)[i] \in Digit

RECURSIVE StripZeros(_)
StripZeros(d) == IF Len(d) > 1 /\ d[1] = "0" THEN StripZeros(Tail(d)) ELSE d

RECURSIVE DigitsOf(_)
DigitsOf(k) ==
    LET c == CHOOSE x \in Digit : DigitVal(x) = k % 10
    IN  IF k < 10 THEN <<c>> ELSE Append(DigitsOf(k \div 10), c)

\* integer v is the one literal tok denotes
Denotes(tok, v) ==
    /\ IsIntLiteral(tok)
    /\ LET mag == StripZeros(Unsigned(tok)) IN
       IF mag = <<"0">> THEN v = 0
       ELSE IF tok[1] = "-" THEN v < 0 /\ DigitsOf(0 - v) = mag
       ELSE v > 0 /\ DigitsOf(v) = mag

\* parse.c:139-143 on a non-NULL string
RECURSIVE is_whitespace(_)
is_whitespace(str) ==
    IF str = <<>> THEN TRUE
    ELSE IF isspace(Head(str)) THEN is_whitespace(Tail(str))
    ELSE FALSE

(***************************************************************************)
(* C1.  For every line whose first token is not exactly a recognized       *)
(* instruction name, after parse the token buffer holds the line's tokens  *)
(* in input order (as many as the buffer keeps), followed by absent slots, *)
(* and inst->instruct is a copy of argv[0].  Stated for the lines within   *)
(* the maximum length MAXLINE, where nothing is to be truncated.           *)
(***************************************************************************)
C1_UnrecognizedKeepsTokens ==
    (ParseDone /\ WithinMaximum /\ LineTokens # <<>> /\ LineTokens[1] \notin FullNames)
        => /\ ArgvTokens = Kept(LineTokens)
           /\ \A i \in ArgvIdx : i >= ArgvCount => argv[i] = NULL
           /\ inst.instruct \in Live(heap)
           /\ inst.instruct # argv[0]
           /\ heap[inst.instruct] = LineTokens[1]

\* the same for the lines that leave room for the terminator
C1_WhenLineFits == FitsBuffer => C1_UnrecognizedKeepsTokens

C1_Witness ==
    /\ ParseDone /\ FitsBuffer /\ Len(LineTokens) >= 2
    /\ LineTokens[1] \in {W_Bg, W_b, W_bgx}
    /\ ArgvTokens = Kept(LineTokens)

(***************************************************************************)
(* C2.  For every line whose first token is exactly a recognized           *)
(* instruction name, after parse every slot of the token buffer is absent, *)
(* and for the bare line "<name>" the id is 0 and the file absent.  Stated *)
(* for the lines within the maximum length MAXLINE.                        *)
(***************************************************************************)
C2_RecognizedClearsBuffer ==
    (ParseDone /\ WithinMaximum /\ LineTokens # <<>> /\ LineTokens[1] \in FullNames)
        => /\ ArgvEmpty
           /\ cmd_line = LineTokens[1] => (inst.id = 0 /\ inst.file = NULL)

C2_WhenLineFits == FitsBuffer => C2_RecognizedClearsBuffer

C2_Witness ==
    /\ ParseDone /\ FitsBuffer /\ Len(LineTokens) >= 3
    /\ LineTokens[1] = S_bg /\ ArgvEmpty /\ inst.file # NULL

(***************************************************************************)
(* C3.  After parse of any line, inst->id is the integer denoted by the    *)
(* second token if the name is id-bearing and the second token exists and  *)
(* is, in its entirety, a base-10 integer literal; in every other case     *)
(* inst->id is 0.  Stated for the lines that fit the scratch buffer.       *)
(***************************************************************************)
C3_IdIffWholeLiteral ==
    (ParseDone /\ FitsBuffer)
        => IF /\ Len(LineTokens) >= 2
              /\ LineTokens[1] \in IdNames
              /\ IsIntLiteral(LineTokens[2])
           THEN Denotes(LineTokens[2], inst.id)
           ELSE inst.id = 0

\* the literal has at most 9 digits and no white space precedes it
C3_PlainToken ==
    Len(LineTokens) >= 2 =>
        /\ ~isspace(LineTokens[2][1])
        /\ IsIntLiteral(LineTokens[2]) => Len(Unsigned(LineTokens[2])) <= 9

C3_WhenPlainToken == C3_PlainToken => C3_IdIffWholeLiteral

C3_Witness ==
    /\ ParseDone /\ FitsBuffer /\ Len(LineTokens) >= 2
    /\ LineTokens[1] = S_cancel /\ LineTokens[2] = W_m3 /\ inst.id = 0 - 3

(***************************************************************************)
(* C4.  After parse of any line, inst->file is populated if and only if    *)
(* the name is file-bearing and a third token exists, and it is then a     *)
(* copy of the third token.  Stated for the lines within the maximum       *)
(* length MAXLINE.                                                         *)
(***************************************************************************)
C4_FileIffThirdToken ==
    (ParseDone /\ WithinMaximum)
        => /\ inst.file # NULL <=>
                 (Len(LineTokens) >= 3 /\ LineTokens[1] \in FileNames)
           /\ inst.file # NULL =>
                 /\ inst.file \in Live(heap)
                 /\ \A i \in ArgvIdx : argv[i] # inst.file
                 /\ heap[inst.file] = LineTokens[3]

C4_WhenLineFits == FitsBuffer => C4_FileIffThirdToken

C4_Witness ==
    /\ ParseDone /\ FitsBuffer /\ Len(LineTokens) >= 3
    /\ LineTokens[1] = S_bg /\ LineTokens[2] = W_f /\ LineTokens[3] = W_42
    /\ inst.file # NULL /\ heap[inst.file] = W_42

(***************************************************************************)
(* C5.  Parsing an empty line or a line made only of white space (any line *)
(* for which is_whitespace returns 1) yields name absent, id 0, file       *)
(* absent and a token buffer with zero tokens.  Stated for the lines that  *)
(* fit the scratch buffer.                                                 *)
(***************************************************************************)
C5_BlankLineYieldsNothing ==
    (ParseDone /\ FitsBuffer /\ is_whitespace(cmd_line))
        => /\ inst = initialize_instruction
           /\ ArgvEmpty
           /\ call.toks = <<>>

\* the same for the lines made of spaces only
C5_SpacesOnly == (\A i \in DOMAIN cmd_line : cmd_line[i] = SP) => C5_BlankLineYieldsNothing

C5_Witness ==
    /\ ParseDone /\ FitsBuffer /\ Len(cmd_line) >= 2
    /\ \A i \in DOMAIN cmd_line : cmd_line[i] = SP
    /\ inst = initialize_instruction

(***************************************************************************)
(* C7.  The statement as made, for every input line: the token buffer      *)
(* holds at most MAXARGS-1 tokens, its last slot stays absent, only slots  *)
(* of the buffer are touched, and of a line with more than MAXARGS-1       *)
(* tokens exactly the first MAXARGS-1 are stored in order (and are what    *)
(* the buffer holds after parse unless the name is recognized).            *)
(***************************************************************************)
C7_Capacity ==
    /\ Len(call.toks) <= MAXARGS - 1
    /\ ArgvCount <= MAXARGS - 1
    /\ argv[MAXARGS - 1] = NULL
    /\ call.slots \subseteq ArgvIdx
    /\ {1, 2} \subseteq ArgvIdx
    /\ faults \cap {"double_free", "invalid_free"} = {}

C7_FirstTokensKept ==
    Len(LineTokens) > MAXARGS - 1 =>
        /\ call.toks = Kept(LineTokens)
        /\ LineTokens[1] \notin FullNames => ArgvTokens = Kept(LineTokens)

C7_EveryLine == ParseDone => (C7_Capacity /\ C7_FirstTokensKept)

(***************************************************************************)
(* C7, amended: the capacity part holds for every line; the first          *)
(* MAXARGS-1 tokens are the ones kept when the line has at most MAXLINE    *)
(* characters.                                                             *)
(***************************************************************************)
C7_WithinMaximum ==
    ParseDone => (C7_Capacity /\ (WithinMaximum => C7_FirstTokensKept))

C7_Witness ==
    /\ ParseDone /\ Len(cmd_line) = MAXLINE
    /\ Len(LineTokens) > MAXARGS - 1
    /\ LineTokens[1] \notin FullNames
    /\ ArgvCount = MAXARGS - 1
    /\ ArgvTokens = Kept(LineTokens)

(***************************************************************************)
(* C9.  A line longer than the buffer is silently truncated: tokenization  *)
(* reads only bytes of the scratch buffer, and parse leaves what it would  *)
(* leave for the leading characters that fit.                              *)
(***************************************************************************)
\* the outcome of parsing line l into fresh storage, nothing behind the buffer
ViewOfLine(l) ==
    LET r == parse_n(l, <<>>, [a \in Addr |-> FreeCell],
                     [i \in ArgvIdx |-> NULL], MAXARGS - 1)
    IN  View(r.inst, r.argv, r.heap)

Leading(l, k) == SubSeq(l, 1, Min(Len(l), k))

C9_SilentTruncation ==
    ParseDone =>
        /\ "oob_read" \notin faults
        /\ View(inst, argv, heap) = ViewOfLine(Leading(cmd_line, MAXLINE - 1))

\* the same for the lines that leave room for the terminator
C9_WhenLineFits == FitsBuffer => C9_SilentTruncation

(***************************************************************************)
(* C6.  When parse is called with a NULL line or a NULL destination it     *)
(* returns without mutating anything: the instruction and the token        *)
(* buffer have the same values after the call as before.  Stated for       *)
(* storage that has been written before the call.                          *)
(***************************************************************************)
Written ==
    /\ \A i \in ArgvIdx : argv[i] # UNINIT
    /\ inst.instruct # UNINIT /\ inst.id # UNINIT /\ inst.file # UNINIT

C6_NullArgumentsMutateNothing ==
    [][(Written /\ call'.op = "parse" /\ ~(call'.line /\ call'.inst /\ call'.argv))
          => (inst' = inst /\ argv' = argv /\ heap' = heap)]_vars

\* the same when argv itself is the missing argument
C6_WhenArgvMissing ==
    [][(call'.op = "parse" /\ ~call'.argv)
          => (inst' = inst /\ argv' = argv /\ heap' = heap)]_vars

(***************************************************************************)
(* C10.  Ownership over call sequences.                                    *)
(*  (1) after a parse, every string it allocated is referenced from        *)
(*      exactly one place among inst->instruct, inst->file and the slots   *)
(*      of argv, and these point to live strings;                          *)
(*  (2) no string is freed twice;                                          *)
(*  (3) after free_command nothing is allocated and every field and slot   *)
(*      is absent.                                                         *)
(***************************************************************************)
Refs(a) ==
    Cardinality({i \in ArgvIdx : argv[i] = a})
        + (IF inst.instruct = a THEN 1 ELSE 0) + (IF inst.file = a THEN 1 ELSE 0)

OwnedOnce ==
    call.op = "parse" =>
        /\ \A a \in call.fresh \cap Live(heap) : Refs(a) = 1
        /\ ParseDone =>
              \A p \in {inst.instruct, inst.file} \cup {argv[i] : i \in ArgvIdx} :
                  p # NULL => p \in Live(heap)

NoDoubleFree == "double_free" \notin faults

AllReleased ==
    call.op = "free_command" =>
        /\ Live(heap) = {}
        /\ inst.instruct = NULL /\ inst.file = NULL
        /\ ArgvEmpty

C8_ConcurrentCallsIndependent ==
    \A t \in Threads :
        conc.th[t].pc = "done" => conc.th[t].view = ViewOfLine(conc.th[t].line)

\* the same when no call starts tokenizing while the other is tokenizing
C8_WhenNotOverlapped == ~conc.overlapped => C8_ConcurrentCallsIndependent

C8_Witness ==
    /\ \A t \in Threads : conc.th[t].pc = "done"
    /\ ~conc.overlapped
    /\ conc.th[1].line # conc.th[2].line
    /\ \A t \in Threads : conc.th[t].view.name # <<>>

====
